---- MODULE Spec2Model ----
(***************************************************************************)
(* A model of wave_function_collapse.py: the Tile / TileSet catalogue and  *)
(* the collapse engine generate_image, with its nested place().            *)
(*                                                                         *)
(* Conventions.  Coordinates are <<row, col>>, 0-based as in the source.   *)
(* Sides are 0..3 (top, left, bottom, right) as in the source; a tuple     *)
(* indexed by a side s is read at s + 1.  A Python dict is a sequence of   *)
(* <<key, value>> pairs in insertion order; a Python set is a set.         *)
(* An image is a sequence of rows of pixels, img[y + 1][x + 1] being       *)
(* getpixel((x, y)); a pixel is a number, 0 being that of an empty canvas. *)
(***************************************************************************)
EXTENDS Integers, Sequences, FiniteSets, TLC

(***************************************************************************)
(* Bounds of the model.                                                    *)
(***************************************************************************)
\* the grid has at most MaxCells cells (width * height <= MaxCells)
MaxCells == 4
\* a caller-supplied seed has at most MaxSeeds pins
MaxSeeds == 2
\* a draw of the random generator is one of RngRes equally spaced values
\* u / RngRes of [0, 1)
RngRes == 5
\* a TileSet is built by at most MaxAdds calls of add_tile
MaxAdds == 2

(***************************************************************************)
(* Python dicts (insertion ordered).                                       *)
(***************************************************************************)
DictKeys(d) == {d[i][1] : i \in DOMAIN d}

DictHas(d, k) == \E i \in DOMAIN d : d[i][1] = k

DictGet(d, k) == d[CHOOSE i \in DOMAIN d : d[i][1] = k][2]

\* d[k] = v: an existing key keeps its position, a new key goes last
DictPut(d, k, v) ==
    IF DictHas(d, k)
    THEN [i \in DOMAIN d |-> IF d[i][1] = k THEN <<k, v>> ELSE d[i]]
    ELSE Append(d, <<k, v>>)

\* d.pop(k, None)
DictPop(d, k) == SelectSeq(d, LAMBDA e : e[1] # k)

(***************************************************************************)
(* Images: the decoded pixel grids behind the tile paths, and their order  *)
(* as paths.                                                               *)
(***************************************************************************)
Images ==
    [corner |-> << <<1, 0>>,
                   <<0, 0>> >>,
     empty  |-> << <<0, 0>>,
                   <<0, 0>> >>,
     flat   |-> << <<0, 0>> >>,
     hook   |-> << <<1, 2>>,
                   <<0, 0>> >>,
     line   |-> << <<1, 0>>,
                   <<0, 1>> >>,
     post   |-> << <<0>>,
                   <<0>> >>]

Paths == DOMAIN Images

\* Path.__lt__: the paths compare as their names do
PathRank ==
    [corner |-> 1, empty |-> 2, flat |-> 3, hook |-> 4, line |-> 5, post |-> 6]

ImageWidth(img) == Len(img[1])

ImageHeight(img) == Len(img)

\* ImageOps.mirror: flip left to right
mirror(img) ==
    [y \in 1..ImageHeight(img) |->
        [x \in 1..ImageWidth(img) |-> img[y][ImageWidth(img) + 1 - x]]]

\* Image.transpose(ROTATE_90): a quarter turn counter-clockwise of a square
\* image
rotate90(img) ==
    [y \in 1..ImageHeight(img) |->
        [x \in 1..ImageWidth(img) |-> img[x][ImageWidth(img) + 1 - y]]]

\* Image.transpose(ROTATE_180)
rotate180(img) ==
    [y \in 1..ImageHeight(img) |->
        [x \in 1..ImageWidth(img) |->
            img[ImageHeight(img) + 1 - y][ImageWidth(img) + 1 - x]]]

\* Image.transpose(ROTATE_270): a quarter turn clockwise of a square image
rotate270(img) ==
    [y \in 1..ImageHeight(img) |->
        [x \in 1..ImageWidth(img) |-> img[ImageHeight(img) + 1 - x][y]]]

\* the pixel of img at the 0-based column xin and row yin, 0 (the fill) when
\* the point is outside of the image
Sample(img, xin, yin) ==
    IF /\ 0 <= xin /\ xin < ImageWidth(img)
       /\ 0 <= yin /\ yin < ImageHeight(img)
    THEN img[yin + 1][xin + 1]
    ELSE 0

\* Image.rotate by a quarter turn (rotation 1) or three (rotation 3) of an
\* image that is not square: the canvas keeps its size, and the pixel at
\* (x, y) is the nearest pixel of img to the centre of (x, y) turned back
\* about the centre of the canvas
affine(img, rotation) ==
    LET w == ImageWidth(img)
        h == ImageHeight(img)
    IN  [y \in 1..h |->
            [x \in 1..w |->
                IF rotation = 1
                THEN Sample(img, (w + h - 1 - 2 * (y - 1)) \div 2,
                                 (2 * (x - 1) + 1 + h - w) \div 2)
                ELSE Sample(img, (2 * (y - 1) + 1 + w - h) \div 2,
                                 (w + h - 1 - 2 * (x - 1)) \div 2)]]

\* Image.rotate(rotation * 90)
rotate(img, rotation) ==
    IF rotation = 0 THEN img
    ELSE IF rotation = 2 THEN rotate180(img)
    ELSE IF ImageWidth(img) = ImageHeight(img)
         THEN IF rotation = 1 THEN rotate90(img) ELSE rotate270(img)
         ELSE affine(img, rotation)

(***************************************************************************)
(* Tile.                                                                   *)
(***************************************************************************)
Reflections == {FALSE, TRUE}

Rotations == 0..3

\* Tile.args, the identity of a tile
Tile(path, reflected, rotation) ==
    [path |-> path, reflected |-> reflected, rotation |-> rotation]

\* Tile.image after __init__
TileImage(tile) ==
    rotate(IF tile.reflected THEN mirror(Images[tile.path])
                             ELSE Images[tile.path],
           tile.rotation)

\* the four getpixel scans of Tile.__init__: (top, left, bottom, right)
Scan(img) ==
    LET w == ImageWidth(img)
        h == ImageHeight(img)
    IN  << [col \in 1..w |-> img[1][col]],
           [row \in 1..h |-> img[row][1]],
           [col \in 1..w |-> img[h][col]],
           [row \in 1..h |-> img[row][w]] >>

\* every Tile that can be constructed
Tiles ==
    {Tile(path, reflected, rotation) :
        path \in Paths, reflected \in Reflections, rotation \in Rotations}

\* the borders attribute each Tile is given by __init__
TileBorders == [tile \in Tiles |-> Scan(TileImage(tile))]

\* Tile.borders
borders(tile) == TileBorders[tile]

\* Tile.__lt__: self.args < other.args, tuples compared left to right
TileLess(a, b) ==
    \/ PathRank[a.path] < PathRank[b.path]
    \/ /\ a.path = b.path
       /\ \/ (~a.reflected) /\ b.reflected
          \/ /\ a.reflected = b.reflected
             /\ a.rotation < b.rotation

RECURSIVE InsertSorted(_, _)
InsertSorted(s, t) ==
    IF s = <<>> THEN <<t>>
    ELSE IF TileLess(t, Head(s)) THEN <<t>> \o s
    ELSE <<Head(s)>> \o InsertSorted(Tail(s), t)

\* sorted() left out: the iterable as it comes
unsorted(seq) == seq

RECURSIVE sorted(_)
\* sorted(iterable of Tiles), the iterable given in its iteration order
sorted(seq) ==
    IF seq = <<>> THEN <<>>
    ELSE InsertSorted(sorted(SubSeq(seq, 1, Len(seq) - 1)), seq[Len(seq)])

\* the orders in which a Python set may be iterated: any order of its
\* elements (Tile hashes a path string, so the order differs per process)
IterOrders(S) ==
    {s \in [1..Cardinality(S) -> S] : \A e \in S : \E i \in DOMAIN s : s[i] = e}

(***************************************************************************)
(* TileSet.                                                                *)
(***************************************************************************)
\* an unset attribute (None) is the empty tuple, a set one a 1-tuple
None == <<>>

\* the (reflection, rotation) pairs in the order add_tile enumerates them
Variants ==
    [i \in 1..(Cardinality(Reflections) * Cardinality(Rotations)) |->
        <<(i - 1) \div Cardinality(Rotations) = 1,
          (i - 1) % Cardinality(Rotations)>>]

\* weights are held in units of 1 / WeightUnit, so that weight / len(tiles)
\* is exact for every number of surviving variants (1, 2, 4 or 8)
WeightUnit == Len(Variants)

\* TileSet.__init__
NewTileSet ==
    [tiles |-> <<>>,
     border_map |-> [side \in 1..4 |-> [sig \in {} |-> {}]],
     tile_width |-> None,
     tile_height |-> None]

RECURSIVE Canonical_all(_, _, _, _)
\* Canonical without the test for an image met before: every variant is
\* kept
Canonical_all(path, i, exists, kept) ==
    IF i > Len(Variants) THEN kept
    ELSE Canonical_all(path, i + 1, exists,
                       Append(kept, Tile(path, Variants[i][1], Variants[i][2])))

RECURSIVE Canonical(_, _, _, _)
\* add_tile's double loop from variant i on: the tiles kept, in the order
\* kept, a variant being skipped when its image is in exists
Canonical(path, i, exists, kept) ==
    IF i > Len(Variants) THEN kept
    ELSE LET tile == Tile(path, Variants[i][1], Variants[i][2])
         IN  IF \E k \in DOMAIN exists : exists[k] = TileImage(tile)
             THEN Canonical(path, i + 1, exists, kept)
             ELSE Canonical(path, i + 1, Append(exists, TileImage(tile)),
                            Append(kept, tile))

\* BorderAdd as an assignment: border_map[side][sig] = {tile}
BorderSet(border_map, side, sig, tile) ==
    [border_map EXCEPT ![side + 1] =
        IF sig \in DOMAIN @ THEN [@ EXCEPT ![sig] = {tile}]
                            ELSE @ @@ (sig :> {tile})]

\* border_map[side][sig].add(tile) on a defaultdict(set)
BorderAdd(border_map, side, sig, tile) ==
    [border_map EXCEPT ![side + 1] =
        IF sig \in DOMAIN @ THEN [@ EXCEPT ![sig] = @ \cup {tile}]
                            ELSE @ @@ (sig :> {tile})]

RECURSIVE Register_whole(_, _, _, _)
\* Register without the division: self.tiles[tile] = weight
Register_whole(ts, order, i, weight) ==
    IF i > Len(order) THEN ts
    ELSE LET tile == order[i]
             b == borders(tile)
             bm0 == BorderAdd(ts.border_map, 0, b[1], tile)
             bm1 == BorderAdd(bm0, 1, b[2], tile)
             bm2 == BorderAdd(bm1, 2, b[3], tile)
             bm3 == BorderAdd(bm2, 3, b[4], tile)
         IN  Register_whole([ts EXCEPT
                                !.tiles = DictPut(@, tile, weight * WeightUnit),
                                !.border_map = bm3],
                            order, i + 1, weight)

RECURSIVE Register(_, _, _, _)
\* add_tile's second loop over sorted(tiles), from index i on
Register(ts, order, i, weight) ==
    IF i > Len(order) THEN ts
    ELSE LET tile == order[i]
             b == borders(tile)
             bm0 == BorderAdd(ts.border_map, 0, b[1], tile)
             bm1 == BorderAdd(bm0, 1, b[2], tile)
             bm2 == BorderAdd(bm1, 2, b[3], tile)
             bm3 == BorderAdd(bm2, 3, b[4], tile)
         IN  Register([ts EXCEPT
                          !.tiles = DictPut(@, tile,
                                        (weight * WeightUnit) \div Len(order)),
                          !.border_map = bm3],
                      order, i + 1, weight)

\* TileSet.add_tile: the tile set after the call, and whether it raised
add_tile(ts, path, weight) ==
    LET image == Images[path]
        first == ts.tile_width = None
        sized == IF first
                 THEN [ts EXCEPT !.tile_width = <<ImageWidth(image)>>,
                                 !.tile_height = <<ImageHeight(image)>>]
                 ELSE ts
    IN  IF ~first /\ <<ImageWidth(image)>> # ts.tile_width
        THEN [tileset |-> ts, raised |-> TRUE]
        ELSE [tileset |-> Register(sized,
                                   sorted(Canonical(path, 1, <<>>, <<>>)),
                                   1, weight),
              raised |-> FALSE]

\* TileSet.get_weight
get_weight(tiles, tile) == DictGet(tiles, tile)

\* TileSet.match_border: the set returned and border_map after the read
\* (reading a missing key of a defaultdict(set) inserts it, empty)
match_border(border_map, border, side) ==
    IF border \in DOMAIN border_map[side + 1]
    THEN [tiles |-> border_map[side + 1][border], border_map |-> border_map]
    ELSE [tiles |-> {},
          border_map |-> [border_map EXCEPT ![side + 1] = @ @@ (border :> {})]]

(***************************************************************************)
(* The catalogue main() registers, cut to two of the images above, and the *)
(* tile set main() has built after the add_tile calls of a catalogue.      *)
(***************************************************************************)
Catalog ==
    << [path |-> "corner", weight |-> 4],
       [path |-> "empty", weight |-> 1] >>

RECURSIVE Build(_)
\* TileSet() followed by add_tile for each entry of cat
Build(cat) ==
    IF cat = <<>> THEN NewTileSet
    ELSE add_tile(Build(SubSeq(cat, 1, Len(cat) - 1)),
                  cat[Len(cat)].path, cat[Len(cat)].weight).tileset

(***************************************************************************)
(* Geometry.                                                               *)
(***************************************************************************)
Offsets == << <<-1, 0>>, <<0, -1>>, <<1, 0>>, <<0, 1>> >>

\* neighbors with the bounds exchanged: 0 <= row < width and
\* 0 <= col < height
neighbors_swapped(coord, width, height) ==
    SelectSeq([i \in 1..4 |-> <<i - 1, <<coord[1] + Offsets[i][1],
                                         coord[2] + Offsets[i][2]>> >>],
              LAMBDA n : /\ 0 <= n[2][1] /\ n[2][1] < width
                         /\ 0 <= n[2][2] /\ n[2][2] < height)

\* neighbors with the bounds off by one: 0 <= row <= height and
\* 0 <= col <= width
neighbors_closed(coord, width, height) ==
    SelectSeq([i \in 1..4 |-> <<i - 1, <<coord[1] + Offsets[i][1],
                                         coord[2] + Offsets[i][2]>> >>],
              LAMBDA n : /\ 0 <= n[2][1] /\ n[2][1] <= height
                         /\ 0 <= n[2][2] /\ n[2][2] <= width)

\* neighbors(): the in-grid neighbours <<side, <<row, col>>>> in side order
neighbors(coord, width, height) ==
    SelectSeq([i \in 1..4 |-> <<i - 1, <<coord[1] + Offsets[i][1],
                                         coord[2] + Offsets[i][2]>> >>],
              LAMBDA n : /\ 0 <= n[2][1] /\ n[2][1] < height
                         /\ 0 <= n[2][2] /\ n[2][2] < width)

(***************************************************************************)
(* place(), nested in generate_image.                                      *)
(***************************************************************************)
\* no exception
NoError == [kind |-> "none", at |-> <<>>]

\* ValueError(f'Constraint failure at {frontier_coord}')
ConstraintFailure(frontier_coord) ==
    [kind |-> "constraint", at |-> frontier_coord]

\* narrow with the intersection left out: the entry is overwritten
narrow_assign(frontier, frontier_coord, valid_tiles) ==
    DictPut(frontier, frontier_coord, valid_tiles)

\* the if / else of place: an existing frontier entry is intersected with
\* valid_tiles in place, a missing one is created as valid_tiles
narrow(frontier, frontier_coord, valid_tiles) ==
    IF DictHas(frontier, frontier_coord)
    THEN DictPut(frontier, frontier_coord,
                 DictGet(frontier, frontier_coord) \cap valid_tiles)
    ELSE DictPut(frontier, frontier_coord, valid_tiles)

RECURSIVE propagate_all(_, _, _, _, _)
\* propagate with the emptiness check moved after the loop: every neighbour
\* is visited, then the first emptied one is reported
propagate_all(nbrs, tile, placed, frontier, border_map) ==
    IF nbrs = <<>>
    THEN [placed |-> placed, frontier |-> frontier,
          border_map |-> border_map, raised |-> NoError]
    ELSE LET side == Head(nbrs)[1]
             frontier_coord == Head(nbrs)[2]
         IN  IF DictHas(placed, frontier_coord)
             THEN propagate_all(Tail(nbrs), tile, placed, frontier,
                                border_map)
             ELSE LET m == match_border(border_map, borders(tile)[side + 1],
                                        (side + 2) % 4)
                      f == narrow(frontier, frontier_coord, m.tiles)
                      rest == propagate_all(Tail(nbrs), tile, placed, f,
                                            m.border_map)
                  IN  IF Cardinality(DictGet(f, frontier_coord)) = 0
                      THEN [rest EXCEPT
                               !.raised = ConstraintFailure(frontier_coord)]
                      ELSE rest

RECURSIVE propagate_noskip(_, _, _, _, _)
\* propagate without the test for placed neighbours
propagate_noskip(nbrs, tile, placed, frontier, border_map) ==
    IF nbrs = <<>>
    THEN [placed |-> placed, frontier |-> frontier,
          border_map |-> border_map, raised |-> NoError]
    ELSE LET side == Head(nbrs)[1]
             frontier_coord == Head(nbrs)[2]
             m == match_border(border_map, borders(tile)[side + 1],
                               (side + 2) % 4)
             f == narrow(frontier, frontier_coord, m.tiles)
         IN  IF Cardinality(DictGet(f, frontier_coord)) = 0
             THEN [placed |-> placed, frontier |-> f,
                   border_map |-> m.border_map,
                   raised |-> ConstraintFailure(frontier_coord)]
             ELSE propagate_noskip(Tail(nbrs), tile, placed, f, m.border_map)

RECURSIVE propagate_shared(_, _, _, _, _)
\* propagate on a match_border that hands out the set border_map holds, not
\* a copy, the set being narrowed where it is:
\* valid_tiles.intersection_update(frontier[frontier_coord])
propagate_shared(nbrs, tile, placed, frontier, border_map) ==
    IF nbrs = <<>>
    THEN [placed |-> placed, frontier |-> frontier,
          border_map |-> border_map, raised |-> NoError]
    ELSE LET side == Head(nbrs)[1]
             frontier_coord == Head(nbrs)[2]
         IN  IF DictHas(placed, frontier_coord)
             THEN propagate_shared(Tail(nbrs), tile, placed, frontier,
                                   border_map)
             ELSE LET sig == borders(tile)[side + 1]
                      m == match_border(border_map, sig, (side + 2) % 4)
                      f == narrow(frontier, frontier_coord, m.tiles)
                      bm == [m.border_map EXCEPT
                                ![((side + 2) % 4) + 1][sig] =
                                    DictGet(f, frontier_coord)]
                  IN  IF Cardinality(DictGet(f, frontier_coord)) = 0
                      THEN [placed |-> placed, frontier |-> f,
                            border_map |-> bm,
                            raised |-> ConstraintFailure(frontier_coord)]
                      ELSE propagate_shared(Tail(nbrs), tile, placed, f, bm)

RECURSIVE propagate_checked(_, _, _, _, _)
\* propagate with the emptiness check made before the write: a neighbour
\* whose candidate set would be empty is reported and left as it was
propagate_checked(nbrs, tile, placed, frontier, border_map) ==
    IF nbrs = <<>>
    THEN [placed |-> placed, frontier |-> frontier,
          border_map |-> border_map, raised |-> NoError]
    ELSE LET side == Head(nbrs)[1]
             frontier_coord == Head(nbrs)[2]
         IN  IF DictHas(placed, frontier_coord)
             THEN propagate_checked(Tail(nbrs), tile, placed, frontier,
                                    border_map)
             ELSE LET m == match_border(border_map, borders(tile)[side + 1],
                                        (side + 2) % 4)
                      f == narrow(frontier, frontier_coord, m.tiles)
                  IN  IF Cardinality(DictGet(f, frontier_coord)) = 0
                      THEN [placed |-> placed, frontier |-> frontier,
                            border_map |-> m.border_map,
                            raised |-> ConstraintFailure(frontier_coord)]
                      ELSE propagate_checked(Tail(nbrs), tile, placed, f,
                                             m.border_map)

RECURSIVE propagate(_, _, _, _, _)
\* the for loop of place over the neighbours nbrs still to visit; it stops
\* at the first neighbour whose candidate set is empty
propagate(nbrs, tile, placed, frontier, border_map) ==
    IF nbrs = <<>>
    THEN [placed |-> placed, frontier |-> frontier,
          border_map |-> border_map, raised |-> NoError]
    ELSE LET side == Head(nbrs)[1]
             frontier_coord == Head(nbrs)[2]
         IN  IF DictHas(placed, frontier_coord)
             THEN propagate(Tail(nbrs), tile, placed, frontier, border_map)
             ELSE LET m == match_border(border_map, borders(tile)[side + 1],
                                        (side + 2) % 4)
                      f == narrow(frontier, frontier_coord, m.tiles)
                  IN  IF Cardinality(DictGet(f, frontier_coord)) = 0
                      THEN [placed |-> placed, frontier |-> f,
                            border_map |-> m.border_map,
                            raised |-> ConstraintFailure(frontier_coord)]
                      ELSE propagate(Tail(nbrs), tile, placed, f,
                                     m.border_map)

\* place without frontier.pop(coord, None)
place_keep(coord, tile, placed, frontier, border_map, width, height) ==
    propagate(neighbors(coord, width, height), tile,
              DictPut(placed, coord, tile), frontier, border_map)

\* place(coord, tile, placed, frontier): the maps after the call and the
\* exception it raised, if any
place(coord, tile, placed, frontier, border_map, width, height) ==
    propagate(neighbors(coord, width, height), tile,
              DictPut(placed, coord, tile), DictPop(frontier, coord),
              border_map)

(***************************************************************************)
(* The random generator.                                                   *)
(***************************************************************************)
Draws == 0..(RngRes - 1)

\* rng.choice(seq) on the draw u: seq must not be empty
choice(seq, u) == seq[((u * Len(seq)) \div RngRes) + 1]

RECURSIVE accumulate(_)
\* itertools.accumulate(weights)
accumulate(weights) ==
    IF weights = <<>> THEN <<>>
    ELSE LET rest == accumulate(SubSeq(weights, 1, Len(weights) - 1))
         IN  Append(rest, (IF rest = <<>> THEN 0 ELSE rest[Len(rest)])
                          + weights[Len(weights)])

\* rng.choices(population, weights=weights)[0] on the draw u:
\* population[bisect(cum_weights, random() * total, 0, n - 1)]
choices(population, weights, u) ==
    LET cum_weights == accumulate(weights)
        total == cum_weights[Len(cum_weights)]
        x == (u * total) \div RngRes
        hi == Len(population)
        above == {i \in 1..hi : cum_weights[i] > x}
    IN  population[IF above = {} THEN hi
                   ELSE CHOOSE i \in above : \A j \in above : i <= j]

(***************************************************************************)
(* generate_image.  A run is a record of the function's locals; the inputs *)
(* width, height and tileset are fixed for the run.                        *)
(***************************************************************************)
\* ValueError('min() arg is an empty sequence'), from line 144
MinOfEmpty == [kind |-> "min", at |-> <<>>]

\* IndexError from rng.choice of an empty sequence, from line 137
ChoiceOfEmpty == [kind |-> "choice", at |-> <<>>]

\* the locals at the head of the seed loop: placed = {}, frontier = {}
NewRun(ts) ==
    [pc |-> "seed", placed |-> <<>>, frontier |-> <<>>,
     border_map |-> ts.border_map, coord |-> None, possibilities |-> <<>>,
     raised |-> NoError]

\* the run after a call of place for coord and tile, continuing at pc next
\* unless place raised
Placing(run, c, tile, next, width, height) ==
    LET p == place(c, tile, run.placed, run.frontier, run.border_map,
                   width, height)
    IN  [run EXCEPT !.placed = p.placed, !.frontier = p.frontier,
                    !.border_map = p.border_map, !.coord = c,
                    !.raised = p.raised,
                    !.pc = IF p.raised = NoError THEN next ELSE "failed"]

\* seed is None: (0, 0) gets rng.choice(sorted(tileset.tiles)), and the
\* seed loop places that one pin
seed_default(run, tiles, u, width, height) ==
    LET keys == [i \in DOMAIN tiles |-> tiles[i][1]]
    IN  IF keys = <<>>
        THEN [run EXCEPT !.pc = "failed", !.raised = ChoiceOfEmpty]
        ELSE Placing(run, <<0, 0>>, choice(sorted(keys), u), "loop",
                     width, height)

\* one iteration of the seed loop, for the pin c -> tile of the seed
seed_pin(run, c, tile, width, height) ==
    Placing(run, c, tile, "seed", width, height)

\* min() without its key: the entries compare as pairs, coordinate first
frontier_min_nokey(frontier) ==
    frontier[CHOOSE i \in DOMAIN frontier :
                \A j \in DOMAIN frontier :
                    \/ i = j
                    \/ frontier[i][1][1] < frontier[j][1][1]
                    \/ /\ frontier[i][1][1] = frontier[j][1][1]
                       /\ frontier[i][1][2] < frontier[j][1][2]]

\* min() with the key (len(pair[1]), pair[0]): ties go to the smallest
\* coordinate
frontier_min_natural(frontier) ==
    frontier[CHOOSE i \in DOMAIN frontier :
                \A j \in DOMAIN frontier :
                    \/ i = j
                    \/ Cardinality(frontier[i][2]) < Cardinality(frontier[j][2])
                    \/ /\ Cardinality(frontier[i][2]) = Cardinality(frontier[j][2])
                       /\ \/ frontier[i][1][1] < frontier[j][1][1]
                          \/ /\ frontier[i][1][1] = frontier[j][1][1]
                             /\ frontier[i][1][2] < frontier[j][1][2]]

\* the first entry of frontier whose candidate set is smallest:
\* min(frontier.items(), key=(lambda pair: len(pair[1])))
frontier_min(frontier) ==
    frontier[CHOOSE i \in DOMAIN frontier :
                \A j \in DOMAIN frontier :
                    \/ Cardinality(frontier[i][2]) < Cardinality(frontier[j][2])
                    \/ /\ Cardinality(frontier[i][2]) = Cardinality(frontier[j][2])
                       /\ i <= j]

\* one iteration of the main loop; order is the order in which the set of
\* possibilities is iterated by sorted(), u the draw of rng.choices
loop_step(run, tiles, order, u, width, height) ==
    IF run.frontier = <<>>
    THEN [run EXCEPT !.pc = "failed", !.raised = MinOfEmpty]
    ELSE LET c == frontier_min(run.frontier)[1]
             possibilities == sorted(order)
             weights == [i \in DOMAIN possibilities |->
                            get_weight(tiles, possibilities[i])]
             stepped == Placing(run, c, choices(possibilities, weights, u),
                                "loop", width, height)
         IN  [stepped EXCEPT !.possibilities = possibilities]

(***************************************************************************)
(* State: the TileSet's attributes, the arguments of generate_image, its   *)
(* locals (pc is its position, raised the exception that ended it),       *)
(* other, the locals of a second run on the same arguments, and calls,     *)
(* the add_tile calls made on the TileSet so far.                          *)
(***************************************************************************)
VARIABLES tiles, border_map, tile_width, tile_height, width, height, pc,
          placed, frontier, coord, possibilities, raised, other, calls

inputs == <<tiles, tile_width, tile_height, width, height, calls>>

locals == <<pc, placed, frontier, border_map, coord, possibilities, raised>>

vars == <<inputs, locals, other>>

\* the run the variables hold
Cur ==
    [pc |-> pc, placed |-> placed, frontier |-> frontier,
     border_map |-> border_map, coord |-> coord,
     possibilities |-> possibilities, raised |-> raised]

\* the variables become the run
Becomes(run) ==
    /\ pc' = run.pc
    /\ placed' = run.placed
    /\ frontier' = run.frontier
    /\ border_map' = run.border_map
    /\ coord' = run.coord
    /\ possibilities' = run.possibilities
    /\ raised' = run.raised

\* the grid
Grid == (0..(height - 1)) \X (0..(width - 1))

\* the coordinates a caller may pin: the grid and one row and column past it
SeedCoords == (0..height) \X (0..width)

\* the tiles a caller may pin: the unreflected, unrotated Tile of each
\* catalogue path (as main() builds its pin), registered or not
SeedTiles == {Tile(Catalog[i].path, FALSE, 0) : i \in DOMAIN Catalog}

\* the orders in which sorted() may meet the candidates of the next cell
NextOrders(run) ==
    IF run.frontier = <<>> THEN {<<>>}
    ELSE IterOrders(frontier_min(run.frontier)[2])

\* the runs one iteration of the main loop may lead to on the draw u, over
\* the orders in which sorted() may meet the candidates
LoopOutcomes(run, u) ==
    {loop_step(run, tiles, order, u, width, height) :
        order \in NextOrders(run)}

\* generate_image is entered with the tile set ts for a grid of w by h
Entered(ts, w, h) ==
    /\ tiles = ts.tiles
    /\ tile_width = ts.tile_width
    /\ tile_height = ts.tile_height
    /\ width = w
    /\ height = h
    /\ pc = "seed"
    /\ placed = <<>>
    /\ frontier = <<>>
    /\ border_map = ts.border_map
    /\ coord = None
    /\ possibilities = <<>>
    /\ raised = NoError

\* the grids of at most MaxCells cells
Dimensions ==
    {d \in (1..MaxCells) \X (1..MaxCells) : d[1] * d[2] <= MaxCells}

\* one run, on the tile set main() has built after some of its add_tile
\* calls: there is no other
Init ==
    \E n \in 0..Len(Catalog), d \in Dimensions :
        /\ Entered(Build(SubSeq(Catalog, 1, n)), d[1], d[2])
        /\ calls = SubSeq(Catalog, 1, n)
        /\ other = None

\* generate_image called with seed=None
SeedDefault ==
    /\ pc = "seed"
    /\ placed = <<>>
    /\ \E u \in Draws : Becomes(seed_default(Cur, tiles, u, width, height))
    /\ UNCHANGED <<inputs, other>>

\* the seed loop takes the next pin of a caller-supplied seed
SeedPin ==
    /\ pc = "seed"
    /\ Len(placed) < MaxSeeds
    /\ \E c \in SeedCoords \ DictKeys(placed), tile \in SeedTiles :
           Becomes(seed_pin(Cur, c, tile, width, height))
    /\ UNCHANGED <<inputs, other>>

\* the seed loop ends: the caller-supplied seed has no further pin
SeedEnd ==
    /\ pc = "seed"
    /\ pc' = "loop"
    /\ UNCHANGED <<inputs, placed, frontier, border_map, coord,
                   possibilities, raised, other>>

\* one iteration of the main loop
LoopStep ==
    /\ pc = "loop"
    /\ Len(placed) < width * height
    /\ \E u \in Draws : \E run \in LoopOutcomes(Cur, u) : Becomes(run)
    /\ UNCHANGED <<inputs, other>>

\* the main loop ends and the image is saved
SaveImage ==
    /\ pc = "loop"
    /\ ~(Len(placed) < width * height)
    /\ pc' = "done"
    /\ UNCHANGED <<inputs, placed, frontier, border_map, coord,
                   possibilities, raised, other>>

Next ==
    \/ SeedDefault
    \/ SeedPin
    \/ SeedEnd
    \/ LoopStep
    \/ SaveImage

Spec == Init /\ [][Next]_vars

(***************************************************************************)
(* Two runs of generate_image side by side, on the same arguments, the     *)
(* same seed and the same draws of the random generator; each run iterates *)
(* its sets in an order of its own.                                        *)
(***************************************************************************)
\* two runs, entered alike
DetInit ==
    \E n \in 0..Len(Catalog), d \in Dimensions :
        /\ Entered(Build(SubSeq(Catalog, 1, n)), d[1], d[2])
        /\ calls = SubSeq(Catalog, 1, n)
        /\ other = NewRun(Build(SubSeq(Catalog, 1, n)))

DetSeedDefault ==
    /\ pc = "seed"
    /\ placed = <<>>
    /\ \E u \in Draws :
           /\ Becomes(seed_default(Cur, tiles, u, width, height))
           /\ other' = seed_default(other, tiles, u, width, height)
    /\ UNCHANGED inputs

DetSeedPin ==
    /\ pc = "seed"
    /\ Len(placed) < MaxSeeds
    /\ \E c \in SeedCoords \ DictKeys(placed), tile \in SeedTiles :
           /\ Becomes(seed_pin(Cur, c, tile, width, height))
           /\ other' = seed_pin(other, c, tile, width, height)
    /\ UNCHANGED inputs

DetSeedEnd ==
    /\ pc = "seed"
    /\ pc' = "loop"
    /\ other' = [other EXCEPT !.pc = "loop"]
    /\ UNCHANGED <<inputs, placed, frontier, border_map, coord,
                   possibilities, raised>>

DetLoopStep ==
    /\ pc = "loop"
    /\ Len(placed) < width * height
    /\ \E u \in Draws :
           /\ \E run \in LoopOutcomes(Cur, u) : Becomes(run)
           /\ \E run \in LoopOutcomes(other, u) : other' = run
    /\ UNCHANGED inputs

DetSaveImage ==
    /\ pc = "loop"
    /\ ~(Len(placed) < width * height)
    /\ pc' = "done"
    /\ other' = [other EXCEPT !.pc = "done"]
    /\ UNCHANGED <<inputs, placed, frontier, border_map, coord,
                   possibilities, raised>>

DetNext ==
    \/ DetSeedDefault
    \/ DetSeedPin
    \/ DetSeedEnd
    \/ DetLoopStep
    \/ DetSaveImage

SpecDet == DetInit /\ [][DetNext]_vars

(***************************************************************************)
(* Building a TileSet: TileSet() followed by add_tile calls, each for any  *)
(* image and any of the weights main() uses.  A caller may go on after a   *)
(* call that raised.                                                       *)
(***************************************************************************)
\* ValueError('Tiles are not of the same size')
SizeMismatch == [kind |-> "size", at |-> <<>>]

\* the weights main() passes to add_tile
Weights == {1, 2, 4}

\* the TileSet the variables hold
CurTileSet ==
    [tiles |-> tiles, border_map |-> border_map,
     tile_width |-> tile_width, tile_height |-> tile_height]

\* tileset = TileSet()
BuildInit ==
    /\ tiles = NewTileSet.tiles
    /\ border_map = NewTileSet.border_map
    /\ tile_width = NewTileSet.tile_width
    /\ tile_height = NewTileSet.tile_height
    /\ calls = <<>>
    /\ pc = "build"
    /\ raised = NoError
    /\ width = 0
    /\ height = 0
    /\ placed = <<>>
    /\ frontier = <<>>
    /\ coord = None
    /\ possibilities = <<>>
    /\ other = None

\* tileset.add_tile(path, weight)
AddTile ==
    /\ pc = "build"
    /\ Len(calls) < MaxAdds
    /\ \E path \in Paths, weight \in Weights :
          LET r == add_tile(CurTileSet, path, weight)
          IN  /\ tiles' = r.tileset.tiles
              /\ border_map' = r.tileset.border_map
              /\ tile_width' = r.tileset.tile_width
              /\ tile_height' = r.tileset.tile_height
              /\ raised' = IF r.raised THEN SizeMismatch ELSE NoError
              /\ calls' = Append(calls, [path |-> path, weight |-> weight])
    /\ UNCHANGED <<width, height, pc, placed, frontier, coord,
                   possibilities, other>>

BuildNext == AddTile

SpecBuild == BuildInit /\ [][BuildNext]_vars

(***************************************************************************)
(* Vocabulary of the properties.                                           *)
(***************************************************************************)
\* the in-grid neighbours of c
Around(c) ==
    {neighbors(c, width, height)[i][2] :
        i \in DOMAIN neighbors(c, width, height)}

\* the side of a that faces its neighbour b
Facing(a, b) ==
    CHOOSE s \in 0..3 :
        b = <<a[1] + Offsets[s + 1][1], a[2] + Offsets[s + 1][2]>>

\* the tiles that may sit at c next to the tile placed at its neighbour n
Allowed(n, c) ==
    match_border(border_map,
                 borders(DictGet(placed, n))[Facing(n, c) + 1],
                 (Facing(n, c) + 2) % 4).tiles

\* the frontier coordinates whose candidate set is smallest
Smallest(f) ==
    {c \in DictKeys(f) :
        \A d \in DictKeys(f) :
            Cardinality(DictGet(f, c)) <= Cardinality(DictGet(f, d))}

\* row, then column
CoordLess(a, b) == a[1] < b[1] \/ (a[1] = b[1] /\ a[2] < b[2])

\* the position of key k in the dict d
DictIndex(d, k) == CHOOSE i \in DOMAIN d : d[i][1] = k

\* this step is an iteration of the main loop that called place
LoopPlaces == pc = "loop" /\ placed' # placed

\* the last iteration of the main loop left a frontier coordinate d alone
\* (d is no neighbour of the cell it placed)
Untouched(d) ==
    /\ possibilities # <<>>
    /\ DictHas(frontier, d)
    /\ d \notin Around(coord)

\* a and b are side by side: one row or one column apart
Adjacent(a, b) ==
    \/ a[1] = b[1] /\ (a[2] = b[2] + 1 \/ b[2] = a[2] + 1)
    \/ a[2] = b[2] /\ (a[1] = b[1] + 1 \/ b[1] = a[1] + 1)

\* the tiles every one of the sets of the family allows; the family is not
\* empty
Meet(family) == {t \in UNION family : \A S \in family : t \in S}

\* the placed coordinates side by side with c, in the grid or not
PlacedBeside(c) == {p \in DictKeys(placed) : Adjacent(c, p)}

\* the pixels of the images
Pixels ==
    UNION {UNION {{Images[p][y][x] : x \in DOMAIN Images[p][y]} :
                     y \in DOMAIN Images[p]} : p \in Paths}

\* every border an image of these pixels may have: a row or a column of one
\* or two pixels
Signatures ==
    {<<a>> : a \in Pixels} \cup {<<a, b>> : a \in Pixels, b \in Pixels}

\* the entries of the tile->weight dict d for the tiles of the image path
VariantsOf(d, path) == SelectSeq(d, LAMBDA e : e[1].path = path)

RECURSIVE TotalWeight(_)
\* the sum of the weights of the entries of d, in units of 1 / WeightUnit
TotalWeight(d) ==
    IF d = <<>> THEN 0 ELSE d[1][2] + TotalWeight(Tail(d))

\* the distinct pixel contents among the 8 transforms of the image path
Contents(path) == {TileImage(t) : t \in {u \in Tiles : u.path = path}}

\* this step is a call of add_tile that did not raise
Added == calls' # calls /\ raised' = NoError

\* the arguments of the add_tile call this step makes
ThisCall == calls'[Len(calls')]

\* the registered tiles
Registered == {tiles[i][1] : i \in DOMAIN tiles}

\* every registered tile has the width and the height of the TileSet
UniformSize ==
    \A t \in Registered :
        /\ <<ImageWidth(TileImage(t))>> = tile_width
        /\ <<ImageHeight(TileImage(t))>> = tile_height

(***************************************************************************)
(* C1.  Adjacency consistency: in the mapping of a run that completed,     *)
(* seeded by the caller or not, any two adjacent cells of the grid hold    *)
(* tiles whose borders on the shared edge are equal.                       *)
(* Violated: place never compares a pinned tile with the tiles already     *)
(* placed next to it.                                                      *)
(***************************************************************************)
AdjacencyConsistent ==
    pc = "done" =>
        \A a \in Grid \cap DictKeys(placed) :
            \A b \in Around(a) \cap DictKeys(placed) :
                borders(DictGet(placed, a))[Facing(a, b) + 1]
                    = borders(DictGet(placed, b))[((Facing(a, b) + 2) % 4) + 1]

(***************************************************************************)
(* C2.  Contradiction reporting: a call of place that empties the          *)
(* candidate set of an unplaced neighbour raises at once, naming that      *)
(* neighbour: the neighbours before it kept a candidate, the neighbours    *)
(* after it are as they were before the call, the call placed one tile,    *)
(* and after the failure placed and frontier never change.                 *)
(***************************************************************************)
ContradictionStops ==
    [][/\ (raised.kind = "none" /\ raised'.kind = "constraint") =>
            /\ pc' = "failed"
            /\ raised'.at \in Around(coord') \ DictKeys(placed')
            /\ DictHas(frontier', raised'.at)
            /\ DictGet(frontier', raised'.at) = {}
            /\ placed' = Append(placed, <<coord', DictGet(placed', coord')>>)
            /\ \A m \in Around(coord') \ DictKeys(placed') :
                  /\ Facing(coord', m) < Facing(coord', raised'.at) =>
                        DictGet(frontier', m) # {}
                  /\ Facing(coord', m) > Facing(coord', raised'.at) =>
                        /\ DictHas(frontier', m) = DictHas(frontier, m)
                        /\ DictHas(frontier, m) =>
                              DictGet(frontier', m) = DictGet(frontier, m)
       /\ pc = "failed" => (placed' = placed /\ frontier' = frontier)
      ]_vars

\* place failed at a cell between two placed tiles whose candidate sets for
\* it are disjoint, and left a later neighbour as it was: not narrowed by
\* the tile just placed
ContradictionReached ==
    /\ pc = "failed"
    /\ raised.kind = "constraint"
    /\ tiles # <<>>
    /\ \E n \in Around(raised.at) \cap DictKeys(placed) :
          /\ n # coord
          /\ Allowed(n, raised.at) # {}
          /\ Allowed(coord, raised.at) # {}
          /\ Allowed(n, raised.at) \cap Allowed(coord, raised.at) = {}
    /\ \E m \in Around(coord) \ DictKeys(placed) :
          /\ Facing(coord, m) > Facing(coord, raised.at)
          /\ DictHas(frontier, m)
          /\ ~(DictGet(frontier, m) \subseteq Allowed(coord, m))

(***************************************************************************)
(* C3.  Complete output: when the main loop ends without an error, placed  *)
(* has an entry for every cell of the grid and for no other coordinate.    *)
(* Violated: a pin outside the grid counts towards len(placed).  Stated    *)
(* for a tile set that has tiles.                                          *)
(***************************************************************************)
CompleteOutput ==
    (tiles # <<>> /\ pc = "done") => DictKeys(placed) = Grid

(***************************************************************************)
(* C4.  Only two outcomes: a run ends with the grid completely filled or   *)
(* with a contradiction raised for a frontier coordinate whose candidate   *)
(* set became empty, and in no other way.                                  *)
(* Violated: min() raises on an empty frontier, and a pin outside the grid *)
(* ends the loop on a partly filled grid.  Stated for a tile set that has  *)
(* tiles and a seed of one pin or more (without them rng.choice and min()  *)
(* raise as well).                                                         *)
(***************************************************************************)
OnlyTwoOutcomes ==
    (tiles # <<>> /\ placed # <<>>) =>
        /\ pc = "done" => Grid \subseteq DictKeys(placed)
        /\ pc = "failed" =>
              /\ raised.kind = "constraint"
              /\ DictHas(frontier, raised.at)
              /\ DictGet(frontier, raised.at) = {}

(***************************************************************************)
(* C5.  MRV selection: the coordinate an iteration of the main loop places *)
(* is a frontier coordinate whose candidate set is of minimum size among   *)
(* the frontier, and the tile placed is one of its candidates.             *)
(***************************************************************************)
MRVSelection ==
    [][LoopPlaces =>
          /\ coord' \in Smallest(frontier)
          /\ DictHas(placed', coord')
          /\ DictGet(placed', coord') \in DictGet(frontier, coord')
          /\ {possibilities'[i] : i \in DOMAIN possibilities'}
                 = DictGet(frontier, coord')
      ]_vars

\* the main loop placed a cell while another, which it left alone, had more
\* candidates
MRVReached ==
    \E d \in Grid :
        /\ Untouched(d)
        /\ Cardinality(DictGet(frontier, d)) > Len(possibilities)

(***************************************************************************)
(* C6.  MRV tie-break as claimed: among the frontier coordinates of        *)
(* minimum candidate-set size the main loop selects the smallest in row,   *)
(* then column order.                                                      *)
(* Violated: min() returns the first minimal entry in the iteration order  *)
(* of the dict, and (1, 0) enters the frontier before (0, 1).              *)
(***************************************************************************)
NaturalTieBreak ==
    [][LoopPlaces =>
          \A d \in Smallest(frontier) : ~CoordLess(d, coord')
      ]_vars

(***************************************************************************)
(* C6, amended.  Among the frontier coordinates of minimum candidate-set   *)
(* size the main loop selects the one whose frontier entry was created     *)
(* first (the first in the dict's insertion order).                        *)
(***************************************************************************)
InsertionTieBreak ==
    [][LoopPlaces =>
          /\ coord' \in Smallest(frontier)
          /\ \A d \in Smallest(frontier) :
                DictIndex(frontier, coord') <= DictIndex(frontier, d)
      ]_vars

\* the main loop placed a cell while another, which it left alone, had as
\* many candidates and comes before it in row, then column order
TieReached ==
    \E d \in Grid :
        /\ Untouched(d)
        /\ Cardinality(DictGet(frontier, d)) = Len(possibilities)
        /\ CoordLess(d, coord)

(***************************************************************************)
(* C7.  Monotonic narrowing: a call of place leaves the candidate set of   *)
(* every coordinate that stays in the frontier a subset of what it was.    *)
(***************************************************************************)
MonotonicNarrowing ==
    [][\A c \in DictKeys(frontier) \cap DictKeys(frontier') :
          DictGet(frontier', c) \subseteq DictGet(frontier, c)
      ]_vars

\* a frontier entry, still with candidates, has fewer than the tile placed
\* at one of its neighbours alone allows: it was narrowed
NarrowedReached ==
    \E c \in DictKeys(frontier) :
        /\ DictGet(frontier, c) # {}
        /\ \E n \in Around(c) \cap DictKeys(placed) :
              /\ DictGet(frontier, c) \subseteq Allowed(n, c)
              /\ DictGet(frontier, c) # Allowed(n, c)

(***************************************************************************)
(* C8.  State partition: no coordinate is both in placed and in frontier,  *)
(* so that each is in exactly one of placed, frontier or neither.          *)
(***************************************************************************)
StatePartition == DictKeys(placed) \cap DictKeys(frontier) = {}

\* the main loop moved a cell from the frontier to placed, other cells
\* being in the frontier still
PartitionReached ==
    /\ possibilities # <<>>
    /\ DictHas(placed, coord)
    /\ frontier # <<>>

(***************************************************************************)
(* C9.  placed is write-once: every call of place keeps the entries placed *)
(* has, tile and all, and the main loop selects no placed coordinate.      *)
(***************************************************************************)
PlacedWriteOnce ==
    [][/\ \A c \in DictKeys(placed) :
             DictHas(placed', c) /\ DictGet(placed', c) = DictGet(placed, c)
       /\ LoopPlaces => coord' \notin DictKeys(placed)
      ]_vars

\* the main loop placed a cell into a mapping that held two entries or more
WriteOnceReached ==
    /\ possibilities # <<>>
    /\ DictHas(placed, coord)
    /\ DictIndex(placed, coord) = Len(placed)
    /\ Len(placed) >= 3

(***************************************************************************)
(* C10.  Determinism: two runs on the same tile set, dimensions and seed   *)
(* and the same draws of the random generator make the same placements in  *)
(* the same order and end alike (the same mapping, or the same failure),   *)
(* whatever the order in which each iterates its sets.                     *)
(***************************************************************************)
Deterministic ==
    /\ other.placed = placed
    /\ other.pc = pc
    /\ other.raised = raised
    /\ other.coord = coord

\* both runs completed a grid in which the main loop chose among several
\* candidates
DeterministicReached ==
    /\ pc = "done"
    /\ other.pc = "done"
    /\ Len(possibilities) > 1
    /\ Len(placed) >= 3

(***************************************************************************)
(* C11.  Termination, as far as a finite run shows it: an iteration of the *)
(* main loop that does not fail adds exactly one new coordinate to placed, *)
(* which never holds more than width * height entries; while the grid is   *)
(* unfilled the loop has a frontier entry to select; and the loop ends     *)
(* early through a contradiction failure only.                             *)
(* Violated: a seed of no pin, or of pins next to no cell of the grid,     *)
(* leaves the frontier empty on an unfilled grid, and min() raises.        *)
(* Stated for a tile set that has tiles.                                   *)
(***************************************************************************)
BoundedProgress ==
    [][tiles # <<>> =>
          /\ (LoopPlaces /\ pc' = "loop") =>
                /\ Len(placed') = Len(placed) + 1
                /\ coord' \notin DictKeys(placed)
                /\ Len(placed') <= width * height
          /\ (pc = "loop" /\ Len(placed) < width * height) =>
                frontier # <<>>
          /\ (pc = "loop" /\ pc' = "failed") => raised'.kind = "constraint"
      ]_vars

\* how far a run is: in the seed loop, in the main loop, ended
PcRank == [seed |-> 1, loop |-> 2, done |-> 3, failed |-> 3]

\* C11, the part that holds: every step of a run moves it on to the main
\* loop or to its end, or adds one new coordinate to placed, the main loop
\* to at most width * height of them; so no run goes on for ever
EveryStepAdvances ==
    [][/\ \/ PcRank[pc'] > PcRank[pc]
          \/ /\ pc' = pc
             /\ Len(placed') = Len(placed) + 1
             /\ coord' \notin DictKeys(placed)
       /\ (pc = "loop" /\ pc' = "loop") => Len(placed') <= width * height
      ]_vars

(***************************************************************************)
(* C12.  State after a contradiction, as claimed: a call of place that     *)
(* fails with a contradiction leaves placed and frontier as they were      *)
(* before the call: placed is without the placement that triggered the     *)
(* failure and no frontier entry holds an empty candidate set.             *)
(* Violated: place writes placed and frontier as it goes and undoes        *)
(* nothing when it raises.  Stated for a tile set that has tiles.          *)
(***************************************************************************)
RolledBack ==
    [][(tiles # <<>> /\ raised.kind = "none" /\ raised'.kind = "constraint") =>
          /\ placed' = placed
          /\ frontier' = frontier
          /\ ~DictHas(placed', coord')
          /\ \A c \in DictKeys(frontier') : DictGet(frontier', c) # {}
      ]_vars

(***************************************************************************)
(* C12, amended.  A call of place that fails with a contradiction leaves   *)
(* placed and frontier as they are at the failure point: placed has gained *)
(* the placement that triggered the failure and nothing else, the placed   *)
(* coordinate has no frontier entry, and exactly one frontier entry holds  *)
(* an empty candidate set, that of the coordinate the error names; before  *)
(* the call no entry was empty.                                            *)
(***************************************************************************)
LeftAtFailurePoint ==
    [][(raised.kind = "none" /\ raised'.kind = "constraint") =>
          /\ ~DictHas(placed, coord')
          /\ DictHas(placed', coord')
          /\ DictPop(placed', coord') = placed
          /\ ~DictHas(frontier', coord')
          /\ \A c \in DictKeys(frontier) : DictGet(frontier, c) # {}
          /\ {c \in DictKeys(frontier') : DictGet(frontier', c) = {}}
                 = {raised'.at}
      ]_vars

\* place failed on a tile set that has tiles, after an earlier placement
\* had succeeded: the failed placement is in placed, the named entry is
\* empty and is in a frontier that has other entries, with candidates
FailurePointReached ==
    /\ pc = "failed"
    /\ raised.kind = "constraint"
    /\ tiles # <<>>
    /\ Len(placed) >= 2
    /\ placed[Len(placed)][1] = coord
    /\ DictGet(frontier, raised.at) = {}
    /\ \E c \in DictKeys(frontier) : DictGet(frontier, c) # {}

(***************************************************************************)
(* C13.  Dimension mismatch: add_tile on a TileSet whose tile size is set  *)
(* raises the size error, and registers nothing, whenever the width or the *)
(* height of the new image differs from it, so that all registered tiles   *)
(* have the width and the height of the TileSet.                           *)
(* Violated: add_tile compares the widths only.                            *)
(***************************************************************************)
DimensionMismatch ==
    [][/\ (/\ tile_width # None
           /\ \/ <<ImageWidth(Images[ThisCall.path])>> # tile_width
              \/ <<ImageHeight(Images[ThisCall.path])>> # tile_height) =>
             /\ raised' = SizeMismatch
             /\ tiles' = tiles
       /\ UniformSize'
      ]_vars

(***************************************************************************)
(* C14.  The TileSet is read-only during generation: no step of a run,     *)
(* whatever frontier entries it creates from the results of match_border   *)
(* and narrows in place, changes the weight of a tile or the result of     *)
(* match_border for any signature and side.                                *)
(***************************************************************************)
TileSetReadOnly ==
    [][/\ tiles' = tiles
       /\ \A side \in 0..3, sig \in Signatures :
             match_border(border_map', sig, side).tiles
                 = match_border(border_map, sig, side).tiles
      ]_vars

\* a frontier entry made from a result of match_border was narrowed in
\* place and kept candidates, while border_map is as add_tile built it
ReadOnlyReached ==
    /\ border_map = Build(calls).border_map
    /\ Len(placed) >= 2
    /\ \E c \in DictKeys(frontier) :
          /\ DictGet(frontier, c) # {}
          /\ \A n \in Around(c) \cap DictKeys(placed) :
                /\ DictGet(frontier, c) \subseteq Allowed(n, c)
                /\ DictGet(frontier, c) # Allowed(n, c)

\* a read of match_border for a border no tile has left its key in
\* border_map, with no tile
InsertOnReadReached ==
    /\ border_map # Build(calls).border_map
    /\ \E side \in 0..3, sig \in Signatures :
          /\ sig \in DOMAIN border_map[side + 1]
          /\ sig \notin DOMAIN Build(calls).border_map[side + 1]
          /\ border_map[side + 1][sig] = {}

(***************************************************************************)
(* C15.  Border index: after any sequence of add_tile calls, for every     *)
(* side and every border, match_border returns exactly the registered      *)
(* tiles that have the border on the side, and no tile when none has.      *)
(***************************************************************************)
BorderIndex ==
    \A side \in 0..3, sig \in Signatures :
        match_border(border_map, sig, side).tiles
            = {t \in Registered : borders(t)[side + 1] = sig}

\* two add_tile calls succeeded; tiles of both images share a border on a
\* side, a border is that of one tile only, and another of none
IndexReached ==
    /\ Len(calls) = 2
    /\ raised = NoError
    /\ \E side \in 0..3, sig \in Signatures :
          \E t \in match_border(border_map, sig, side).tiles,
             u \in match_border(border_map, sig, side).tiles :
              t.path # u.path
    /\ \E side \in 0..3, sig \in Signatures :
          Cardinality(match_border(border_map, sig, side).tiles) = 1
    /\ \E side \in 0..3, sig \in Signatures :
          /\ Len(sig) = ImageWidth(TileImage(tiles[1][1]))
          /\ match_border(border_map, sig, side).tiles = {}

(***************************************************************************)
(* C16.  Weight conservation: after add_tile(path, w) each surviving       *)
(* variant of the image is registered with the weight w / n, n being the   *)
(* number of surviving variants, so that their weights sum to w; the       *)
(* weights of the other images' tiles are as they were.                    *)
(***************************************************************************)
WeightConserved ==
    [][Added =>
          LET survivors == VariantsOf(tiles', ThisCall.path)
              n == Len(survivors)
          IN  /\ n = Cardinality(Contents(ThisCall.path))
              /\ \A i \in DOMAIN survivors :
                    survivors[i][2] * n = ThisCall.weight * WeightUnit
              /\ TotalWeight(survivors) = ThisCall.weight * WeightUnit
              /\ \A q \in Paths \ {ThisCall.path} :
                    VariantsOf(tiles', q) = VariantsOf(tiles, q)
      ]_vars

\* an image of several surviving variants was added, with a weight larger
\* than 1, to a TileSet that held tiles of another image
WeightSplitReached ==
    /\ Len(calls) = 2
    /\ raised = NoError
    /\ calls[1].path # calls[2].path
    /\ calls[2].weight > 1
    /\ Len(VariantsOf(tiles, calls[2].path)) > 1
    /\ Len(VariantsOf(tiles, calls[1].path)) > 1

(***************************************************************************)
(* C17.  Symmetry collapse: add_tile registers exactly one Tile for each   *)
(* distinct pixel content among the 8 transforms of the image (mirrored or *)
(* not, then turned by 0 to 3 quarters): 1 for an image that all 8 leave   *)
(* as it is, 8 for an image that none but the identity does, and no two    *)
(* registered variants of an image have the same content.  The mirroring   *)
(* comes before the turn: the mirrored hook turned by a quarter has the    *)
(* left border (1, 2).                                                     *)
(***************************************************************************)
SymmetryCollapse ==
    [][Added =>
          LET path == ThisCall.path
              survivors == {t \in Registered' : t.path = path}
              transforms == {t \in Tiles : t.path = path}
          IN  /\ survivors \subseteq transforms
              /\ \A t \in transforms :
                    Cardinality({u \in survivors :
                                    TileImage(u) = TileImage(t)}) = 1
              /\ (\A t \in transforms : TileImage(t) = Images[path]) =>
                    Cardinality(survivors) = 1
              /\ (\A t \in transforms, u \in transforms :
                        TileImage(t) = TileImage(u) => t = u) =>
                    survivors = transforms
              /\ path = "empty" => Cardinality(survivors) = 1
              /\ path = "hook" =>
                    /\ Cardinality(survivors) = 8
                    /\ Tile("hook", TRUE, 1) \in
                           match_border(border_map', <<1, 2>>, 1).tiles
      ]_vars

\* an image with no symmetry (8 variants) was added to a TileSet that held
\* the one variant of an image of full symmetry
CollapseReached ==
    /\ Len(calls) = 2
    /\ raised = NoError
    /\ calls[1].path = "empty"
    /\ calls[2].path = "hook"
    /\ Len(tiles) = 9

(***************************************************************************)
(* C18.  Trivial grid: for width = height = 1 and a seed of the one pin    *)
(* (0, 0) -> t, the seed loop places t without creating a frontier entry   *)
(* and without a read of border_map, the main loop makes no iteration and  *)
(* no draw, and the run ends with placed = {(0, 0): t}.                    *)
(***************************************************************************)
TrivialGrid ==
    [][(width = 1 /\ height = 1) =>
          /\ (pc = "seed" /\ placed = <<>> /\ pc' = "seed") =>
                (coord' = <<0, 0>> =>
                    /\ Len(placed') = 1
                    /\ placed'[1][1] = <<0, 0>>
                    /\ placed'[1][2] \in SeedTiles
                    /\ frontier' = <<>>
                    /\ border_map' = border_map
                    /\ possibilities' = <<>>
                    /\ raised' = NoError)
          /\ (pc \in {"seed", "loop"} /\ DictKeys(placed) = {<<0, 0>>}
                 /\ DictKeys(placed') = {<<0, 0>>}) =>
                /\ pc' = IF pc = "seed" THEN "loop" ELSE "done"
                /\ placed' = placed
                /\ frontier' = <<>>
                /\ border_map' = Build(calls).border_map
                /\ possibilities' = <<>>
                /\ raised' = NoError
          /\ (pc = "loop" /\ DictKeys(placed) = {<<0, 0>>}) =>
                DictKeys(placed') = {<<0, 0>>}
      ]_vars

\* a run on the grid of one cell ended with the one pin at (0, 0), of a
\* tile the tile set does not hold: no candidate set was ever computed
TrivialReached ==
    /\ width = 1
    /\ height = 1
    /\ pc = "done"
    /\ tiles # <<>>
    /\ Len(placed) = 1
    /\ placed[1][1] = <<0, 0>>
    /\ ~DictHas(tiles, placed[1][2])
    /\ frontier = <<>>

(***************************************************************************)
(* C19.  Frontier membership: as long as no call of place has failed, the  *)
(* keys of frontier are exactly the coordinates of the grid that are not   *)
(* in placed and are next to (above, left of, below or right of) a placed  *)
(* coordinate.                                                             *)
(***************************************************************************)
FrontierMembership ==
    raised = NoError =>
        DictKeys(frontier) =
            {c \in Grid \ DictKeys(placed) :
                \E p \in DictKeys(placed) : Adjacent(c, p)}

\* after two placements or more, the last one by the main loop, the grid
\* has a cell in the frontier and a cell that is neither placed nor in the
\* frontier
MembershipReached ==
    /\ raised = NoError
    /\ possibilities # <<>>
    /\ Len(placed) >= 2
    /\ frontier # <<>>
    /\ Grid \ (DictKeys(placed) \cup DictKeys(frontier)) # {}

(***************************************************************************)
(* C20.  Frontier candidates are exactly the arc-consistent set: as long   *)
(* as no call of place has failed, the candidate set of a frontier         *)
(* coordinate c is the intersection, over the placed neighbours n of c in  *)
(* the grid, of match_border(placed[n].borders[s], (s + 2) mod 4), s being *)
(* the side of n that faces c; neither less nor more.  Stated for the      *)
(* frontier coordinates that have such a neighbour.                        *)
(* Violated: a pin outside the grid (C3) narrows the cells next to it.     *)
(***************************************************************************)
ArcConsistent ==
    raised = NoError =>
        \A c \in DictKeys(frontier) :
            Around(c) \cap DictKeys(placed) # {} =>
                DictGet(frontier, c) =
                    Meet({Allowed(n, c) : n \in Around(c) \cap DictKeys(placed)})

\* C20 over all the placed coordinates side by side with c, those outside
\* the grid included: this holds
ArcConsistentBeside ==
    raised = NoError =>
        \A c \in DictKeys(frontier) :
            DictGet(frontier, c) =
                Meet({Allowed(n, c) : n \in PlacedBeside(c)})

====
